---------------------------- MODULE Spec2Model ----------------------------
(***************************************************************************)
(* Exterior-ballistics core of src/bullet_drop_test.py: the zero-angle     *)
(* bisection (find_zero_angle), its integrator (simulate_to_zero) and the  *)
(* trajectory loop of calculate_trajectory.                                *)
(*                                                                         *)
(* The program computes in IEEE doubles.  The model computes in fixed      *)
(* point, every product a*b/c taken exactly and then truncated:            *)
(*     velocity      micro-fps            (1 fps      = 1000000)           *)
(*     position      micro-feet           (1 ft       = 1000000)           *)
(*     acceleration  milli-ft/s^2         (1 ft/s^2   = 1000)              *)
(*     speed v       deci-fps             (1 fps      = 10)                *)
(*     mach, cd      millionths           (1.0        = 1000000)           *)
(*     ballistic_coef thousandths         (0.485      = 485)               *)
(*     ranges        micro-yards, sight_height micro-inches                *)
(*     angle (physics) nano-radians       (0.1 rad    = 100000000)         *)
(* dt = 0.001 s is carried by the units: an acceleration in milli-ft/s^2   *)
(* times dt is a velocity in micro-fps, and a velocity in micro-fps times  *)
(* dt is a position in nano-feet, rounded to micro-feet.                   *)
(* The bracket angles of the bisection are kept exactly, as two 26-bit     *)
(* limbs <<hi, lo>> counting units of 0.1/2^50 rad above -0.1 rad, so that *)
(* 51 halvings of [-0.1, 0.1] are exact.                                   *)
(*                                                                         *)
(* The second part is the calibration log of src/ScopeAdjustment.py: the   *)
(* handlers of ScopeAdjustmentApp that mark shots and the target center,   *)
(* compute the adjustment and write or clear the calibration_history       *)
(* table.  Entry texts are sequences of one-character strings; pixel       *)
(* coordinates are integers; inches, yards, MOA and MIL are thousandths.   *)
(***************************************************************************)
EXTENDS Integers, Sequences, FiniteSets, TLC

VARIABLES
    params,         \* the call's arguments (a record, fixed during a run)
    pc,             \* control position
    iter,           \* completed iterations of `for _ in range(50)`
    calls,          \* number of simulate_to_zero calls made by the search
    angle_low,      \* bracket, <<hi, lo>> limbs
    angle_high,
    angle_mid,
    x, y, vx, vy,   \* projectile state of the running integrator loop
    height,         \* value returned by the last simulate_to_zero call
    initial_angle,  \* value returned by find_zero_angle
    positions,      \* calculate_trajectory's list of samples
    drop_inches,    \* calculate_trajectory's result['drop_inches']
    error,          \* exception raised, "none" while none
    drag_v,         \* drag-model sweep: speed (deci-fps) and family
    drag_model,
    cd_prev,        \* drag-model sweep: coefficient at the previous speed
    cd_now,         \* drag-model sweep: coefficient at drag_v
    image,          \* ScopeAdjustmentApp: an image is loaded (self.image)
    shot_coordinates,   \* list of <<x, y>>
    target_center,  \* <<>> for None, else <<x, y>>
    marking_mode,   \* "shots", "default" or "center"
    canvas_binding, \* handler bound to <Button-1> on the canvas
    target_width,   \* entry texts
    target_height,
    target_distance,
    bullet_weight,
    adjustment_type,    \* "MOA" or "MIL"
    history,        \* rows of table calibration_history, in insertion order
    history_tree,   \* rows shown in the History tab
    reported        \* last dialog shown or traceback printed, <<kind, text>>

GuiVars == <<image, shot_coordinates, target_center, marking_mode,
             canvas_binding, target_width, target_height, target_distance,
             bullet_weight, adjustment_type, history, history_tree, reported>>

vars == <<params, pc, iter, calls, angle_low, angle_high, angle_mid,
          x, y, vx, vy, height, initial_angle, positions, drop_inches,
          error, drag_v, drag_model, cd_prev, cd_now, GuiVars>>

-----------------------------------------------------------------------------
(* Arithmetic on 32-bit integers.                                          *)

Abs(a) == IF a < 0 THEN -a ELSE a

Sgn(a) == IF a < 0 THEN -1 ELSE 1

Max(a, b) == IF a >= b THEN a ELSE b

\* a / d rounded to the nearest integer (d > 0).
RoundDiv(a, d) == (a + d \div 2) \div d

\* <<q, r>> with a*b = q*c + r and 0 <= r < c, for a, b >= 0 and c > 0,
\* computed without forming a*b.
RECURSIVE MulDivQR(_, _, _)
MulDivQR(a, b, c) ==
    IF b = 0 THEN <<0, 0>>
    ELSE LET h  == MulDivQR(a, b \div 2, c)
             d  == IF h[2] >= c - h[2]
                       THEN <<2 * h[1] + 1, h[2] - (c - h[2])>>
                       ELSE <<2 * h[1], h[2] + h[2]>>
             aq == a \div c
             ar == a % c
         IN  IF b % 2 = 0 THEN d
             ELSE IF d[2] >= c - ar
                      THEN <<d[1] + aq + 1, d[2] - (c - ar)>>
                      ELSE <<d[1] + aq, d[2] + ar>>

\* floor(a*b/c) for a, b >= 0 and c > 0.
MulDiv(a, b, c) ==
    IF a = 0 \/ b <= 2147483647 \div a
        THEN (a * b) \div c
        ELSE IF a < b THEN MulDivQR(b, a, c)[1] ELSE MulDivQR(a, b, c)[1]

\* a*b/c truncated toward zero, for any signs of a and b (c > 0).
MulDivS(a, b, c) == Sgn(a) * Sgn(b) * MulDiv(Abs(a), Abs(b), c)

\* floor(sqrt(n)) by Newton's iteration from a guess g >= sqrt(n).
RECURSIVE IsqrtFrom(_, _)
IsqrtFrom(n, g) ==
    LET g2 == (g + n \div g) \div 2
    IN  IF g2 >= g THEN g ELSE IsqrtFrom(n, g2)

Isqrt(n) == IF n = 0 THEN 0 ELSE IsqrtFrom(n, IF n < 46340 THEN n ELSE 46340)

-----------------------------------------------------------------------------
(* Program constants.                                                      *)

GRAVITY == 32174            \* 32.174 ft/s^2, in milli-ft/s^2

AIR_DENSITY == 23769        \* 0.0023769, in units of 10^-7

\* range(50) written as range(51)
MaxIterations_OneMore == 50 + 1

MaxIterations == 50         \* range(50)

Tolerance == 100            \* 0.0001 ft, in micro-feet

\* Heights more than MaxDrop feet below the muzzle are not told apart: the
\* loops never read y, so this only keeps a run that never ends finite.
MaxDrop == 60


-----------------------------------------------------------------------------
(* Drag model: calculate_drag_coefficient (the same text at lines 23-38    *)
(* and 112-127).  velocity is a speed in deci-fps; mach and the result are *)
(* in millionths.                                                          *)

Mach(velocity) == MulDiv(velocity, 1000000, 11164)

calculate_drag_coefficient(velocity, model) ==
    LET mach == Mach(velocity)
    IN  IF model = "G1"
            THEN IF mach < 700000 THEN 200000
                 ELSE IF mach < 1200000
                     THEN 250000 + MulDiv(mach - 700000, 5, 10)
                     ELSE 520000
            ELSE IF mach < 700000 THEN 100000
                 ELSE IF mach < 1200000
                     THEN 150000 + MulDiv(mach - 700000, 3, 10)
                     ELSE 300000

-----------------------------------------------------------------------------
(* Angles.  A bracket angle <<hi, lo>> stands for                          *)
(*     -0.1 + 0.1 * (hi * 2^26 + lo) / 2^50  radians.                      *)

AngleMin == <<0, 0>>                \* -0.1 rad

AngleMax == <<33554432, 0>>         \*  0.1 rad

\* (a + b) / 2
Midpoint(a, b) ==
    LET sh == a[1] + b[1]
        sl == a[2] + b[2]
        t  == IF sh % 2 = 0 THEN sl \div 2 ELSE (67108864 + sl) \div 2
    IN  <<sh \div 2 + t \div 67108864, t % 67108864>>

\* a < b
AngleLess(a, b) == a[1] < b[1] \/ (a[1] = b[1] /\ a[2] < b[2])

\* The angle in nano-radians, as math.cos and math.sin receive it.
Radians(a) ==
    MulDiv(a[1], 100000000, 16777216)
        + MulDiv(a[2] \div 1048576, 100000000, 1073741824) - 100000000

\* math.sin and math.cos of an angle in nano-radians, in units of 10^-9,
\* by their Taylor series (exact to 10^-9 on [-0.1, 0.1]).
Sin(th) ==
    LET th2 == MulDivS(th, th, 1000000000)
        th3 == MulDivS(th2, th, 1000000000)
        th5 == MulDivS(MulDivS(th2, th2, 1000000000), th, 1000000000)
    IN  th - MulDivS(th3, 1, 6) + MulDivS(th5, 1, 120)

Cos(th) ==
    LET th2 == MulDivS(th, th, 1000000000)
        th4 == MulDivS(th2, th2, 1000000000)
        th6 == MulDivS(th4, th2, 1000000000)
    IN  1000000000 - th2 \div 2 + th4 \div 24 - th6 \div 720

-----------------------------------------------------------------------------
(* The integrator.                                                         *)

\* sight_height / 12 (feet), zero_range * 3 and target_range * 3 (feet)
SightHeightFt(p) == p.sight_height \div 12

ZeroRangeFt(p) == p.zero_range * 3

TargetRangeFt(p) == p.target_range * 3

\* Initial conditions of a run launched at `angle`.
Launch(p, angle) ==
    [x  |-> 0,
     y  |-> SightHeightFt(p),
     vx |-> MulDivS(p.initial_velocity, Cos(Radians(angle)), 1000000000),
     vy |-> MulDivS(p.initial_velocity, Sin(Radians(angle)), 1000000000)]

\* The division `/ (ballistic_coef * 2)` raises ZeroDivisionError.
DividesByZero(p) == p.ballistic_coef * 2 = 0

\* One pass through the loop body (lines 48-59, and again 142-153), from
\* state s = [x, y, vx, vy]; requires ~DividesByZero(p).
IntegrationStep(p, s) ==
    LET v      == Isqrt((Abs(s.vx) \div 100000) * (Abs(s.vx) \div 100000)
                        + (Abs(s.vy) \div 100000) * (Abs(s.vy) \div 100000))
        cd     == calculate_drag_coefficient(v, p.drag_function)
        drag   == MulDiv(MulDiv(v * v, cd, 1000000), AIR_DENSITY,
                         p.ballistic_coef * 2 * 1000)
        drag_x == IF v > 0 THEN MulDivS(drag, s.vx, v * 100000) ELSE 0
        drag_y == IF v > 0 THEN MulDivS(drag, s.vy, v * 100000) ELSE 0
        nvx    == s.vx - drag_x
        nvy    == s.vy - (GRAVITY + drag_y)
    IN  [x  |-> s.x + RoundDiv(nvx, 1000),
         y  |-> Max(s.y + RoundDiv(nvy, 1000), -(MaxDrop * 1000000)),
         vx |-> nvx,
         vy |-> nvy]

State == [x |-> x, y |-> y, vx |-> vx, vy |-> vy]

SetState(s) == x' = s.x /\ y' = s.y /\ vx' = s.vx /\ vy' = s.vy

-----------------------------------------------------------------------------
(* Arguments of the calls that are explored.                               *)

Args(v, bc, zr, tr, df) ==
    [initial_velocity |-> v, ballistic_coef |-> bc, zero_range |-> zr,
     target_range |-> tr, sight_height |-> 1500000, drag_function |-> df]

Inputs ==
    { \* 2000 fps, BC 0.485, zeroed at 20 yd; target beyond, at and short of it
      Args(2000000000, 485, 20000000, 40000000, "G1"),
      Args(2000000000, 485, 20000000, 20000000, "G1"),
      Args(2000000000, 485, 20000000, 10000000, "G1"),
      \* 1500 fps: at the solved angle x lands exactly on 3 * 10.284722 ft
      Args(1500000000, 485, 10284722, 10284722, "G1"),
      \* 1000 fps, BC 0.3, G7, zeroed at 1 yd
      Args(1000000000, 300, 1000000, 3000000, "G7"),
      \* 10 fps, zeroed at 0.3 yd: no angle of the bracket reaches the sight line
      Args(10000000, 485, 300000, 300000, "G1"),
      \* 20 fps, BC 0.001, zeroed at 100 yd: drag stops the bullet short
      Args(20000000, 1, 100000000, 100000000, "G1"),
      \* 1800 fps, BC 0.001: one step of drag takes more than the whole speed
      Args(1800000000, 1, 20000000, 20000000, "G1"),
      \* arguments outside the documented domain
      Args(2000000000, 0, 20000000, 40000000, "G1"),
      Args(2000000000, 485, 5000000, 5000000, "G2"),
      Args(2000000000, 485, 0, 0, "G1"),
      Args(2000000000, 485, -1000000, -1000000, "G1") }

\* The documented domain of the arguments.
ValidArgs(p) ==
    /\ p.initial_velocity > 0
    /\ p.ballistic_coef > 0
    /\ p.zero_range > 0
    /\ p.target_range > 0
    /\ p.drag_function \in {"G1", "G7"}

\* ScopeAdjustmentApp.__init__: the fields after construction, the
\* calibration_history table apart.
GuiConstructed ==
    /\ image = FALSE
    /\ shot_coordinates = <<>>
    /\ target_center = <<>>
    /\ marking_mode = "shots"
    /\ canvas_binding = "none"
    /\ target_width = <<>>
    /\ target_height = <<>>
    /\ target_distance = <<>>
    /\ bullet_weight = <<>>
    /\ adjustment_type = "MOA"
    /\ history = <<>>
    /\ history_tree = <<>>
    /\ reported = <<"none", "">>

-----------------------------------------------------------------------------
(* find_zero_angle: the state at line 71, before the first iteration.      *)

Init ==
    /\ params \in Inputs
    /\ pc = "bisect"
    /\ iter = 0
    /\ calls = 0
    /\ angle_low = AngleMin
    /\ angle_high = AngleMax
    /\ angle_mid = AngleMin
    /\ x = 0 /\ y = 0 /\ vx = 0 /\ vy = 0
    /\ height = 0
    /\ initial_angle = AngleMin
    /\ positions = <<>>
    /\ drop_inches = 0
    /\ error = "none"
    /\ drag_v = 0 /\ drag_model = "G1" /\ cd_prev = 0 /\ cd_now = 0
    /\ GuiConstructed

DragVars == <<drag_v, drag_model, cd_prev, cd_now>>

\* for _ in range(50): angle_mid = (angle_low + angle_high) / 2, and the
\* call simulate_to_zero(angle_mid) up to its loop.
Iterate ==
    /\ pc = "bisect"
    /\ iter < MaxIterations
    /\ angle_mid' = Midpoint(angle_low, angle_high)
    /\ SetState(Launch(params, angle_mid'))
    /\ calls' = calls + 1
    /\ pc' = "sim"
    /\ UNCHANGED <<params, iter, angle_low, angle_high, height, initial_angle,
                   positions, drop_inches, error, DragVars, GuiVars>>

\* Line 82: the loop is exhausted, return (angle_low + angle_high) / 2.
ReturnMidpoint ==
    /\ pc = "bisect"
    /\ iter >= MaxIterations
    /\ initial_angle' = Midpoint(angle_low, angle_high)
    /\ pc' = "zeroed"
    /\ UNCHANGED <<params, iter, calls, angle_low, angle_high, angle_mid,
                   x, y, vx, vy, height, positions, drop_inches, error,
                   DragVars, GuiVars>>

\* Where simulate_to_zero returns to: the search, or the caller that
\* simulates the returned angle again.
AfterSim == IF pc = "sim" THEN "judge" ELSE "rechecked"

\* `while x <= zero_range`: one pass of simulate_to_zero's loop, with its
\* `if x >= zero_range: return y`.
SimStep ==
    /\ pc \in {"sim", "resim"}
    /\ x <= ZeroRangeFt(params)
    /\ IF DividesByZero(params)
           THEN /\ pc' = "raised"
                /\ error' = "ZeroDivisionError"
                /\ UNCHANGED <<x, y, vx, vy, height>>
           ELSE LET s == IntegrationStep(params, State)
                IN  /\ SetState(s)
                    /\ IF s.x >= ZeroRangeFt(params)
                           THEN height' = s.y /\ pc' = AfterSim
                           ELSE UNCHANGED <<height, pc>>
                    /\ UNCHANGED error
    /\ UNCHANGED <<params, iter, calls, angle_low, angle_high, angle_mid,
                   initial_angle, positions, drop_inches, DragVars, GuiVars>>

\* Line 64: the loop condition fails without the inner return having fired.
SimFallThrough ==
    /\ pc \in {"sim", "resim"}
    /\ ~(x <= ZeroRangeFt(params))
    /\ height' = y
    /\ pc' = AfterSim
    /\ UNCHANGED <<params, iter, calls, angle_low, angle_high, angle_mid,
                   x, y, vx, vy, initial_angle, positions, drop_inches, error,
                   DragVars, GuiVars>>

\* Judge, but accepting with angle_low instead of angle_mid.
Judge_ReturnsLow ==
    /\ pc = "judge"
    /\ IF Abs(height - SightHeightFt(params)) < Tolerance
           THEN /\ initial_angle' = angle_low
                /\ pc' = "zeroed"
                /\ UNCHANGED <<angle_low, angle_high, iter>>
           ELSE /\ IF height > SightHeightFt(params)
                       THEN angle_high' = angle_mid /\ UNCHANGED angle_low
                       ELSE angle_low' = angle_mid /\ UNCHANGED angle_high
                /\ iter' = iter + 1
                /\ pc' = "bisect"
                /\ UNCHANGED initial_angle
    /\ UNCHANGED <<params, calls, angle_mid, x, y, vx, vy, height, positions,
                   drop_inches, error, DragVars, GuiVars>>

\* Judge, but with the two narrowing branches exchanged.
Judge_SwappedBranches ==
    /\ pc = "judge"
    /\ IF Abs(height - SightHeightFt(params)) < Tolerance
           THEN /\ initial_angle' = angle_mid
                /\ pc' = "zeroed"
                /\ UNCHANGED <<angle_low, angle_high, iter>>
           ELSE /\ IF height > SightHeightFt(params)
                       THEN angle_low' = angle_mid /\ UNCHANGED angle_high
                       ELSE angle_high' = angle_mid /\ UNCHANGED angle_low
                /\ iter' = iter + 1
                /\ pc' = "bisect"
                /\ UNCHANGED initial_angle
    /\ UNCHANGED <<params, calls, angle_mid, x, y, vx, vy, height, positions,
                   drop_inches, error, DragVars, GuiVars>>

\* Lines 75-80 with target_height = sight_height.
Judge ==
    /\ pc = "judge"
    /\ IF Abs(height - SightHeightFt(params)) < Tolerance
           THEN /\ initial_angle' = angle_mid
                /\ pc' = "zeroed"
                /\ UNCHANGED <<angle_low, angle_high, iter>>
           ELSE /\ IF height > SightHeightFt(params)
                       THEN angle_high' = angle_mid /\ UNCHANGED angle_low
                       ELSE angle_low' = angle_mid /\ UNCHANGED angle_high
                /\ iter' = iter + 1
                /\ pc' = "bisect"
                /\ UNCHANGED initial_angle
    /\ UNCHANGED <<params, calls, angle_mid, x, y, vx, vy, height, positions,
                   drop_inches, error, DragVars, GuiVars>>

\* A caller of find_zero_angle alone feeds the returned angle back into
\* simulate_to_zero at the same zero range.
Resimulate ==
    /\ pc = "zeroed"
    /\ SetState(Launch(params, initial_angle))
    /\ pc' = "resim"
    /\ UNCHANGED <<params, iter, calls, angle_low, angle_high, angle_mid,
                   height, initial_angle, positions, drop_inches, error,
                   DragVars, GuiVars>>

\* calculate_trajectory, lines 129-136, after find_zero_angle has returned.
TrajBegin ==
    /\ pc = "zeroed"
    /\ SetState(Launch(params, initial_angle))
    /\ positions' = <<>>
    /\ pc' = "traj"
    /\ UNCHANGED <<params, iter, calls, angle_low, angle_high, angle_mid,
                   height, initial_angle, drop_inches, error, DragVars,
                   GuiVars>>

\* positions.append((x / 3, drop * 12))
Sample(p, s) == <<RoundDiv(s.x, 3), (s.y - SightHeightFt(p)) * 12>>

\* `while x <= target_range`: one pass of calculate_trajectory's loop.
TrajStep ==
    /\ pc = "traj"
    /\ x <= TargetRangeFt(params)
    /\ IF DividesByZero(params)
           THEN /\ pc' = "raised"
                /\ error' = "ZeroDivisionError"
                /\ UNCHANGED <<x, y, vx, vy, positions>>
           ELSE LET s == IntegrationStep(params, State)
                IN  /\ SetState(s)
                    /\ positions' = Append(positions, Sample(params, s))
                    /\ UNCHANGED <<pc, error>>
    /\ UNCHANGED <<params, iter, calls, angle_low, angle_high, angle_mid,
                   height, initial_angle, drop_inches, DragVars, GuiVars>>

\* Lines 159-163: 'drop_inches': positions[-1][1].
TrajReturn ==
    /\ pc = "traj"
    /\ ~(x <= TargetRangeFt(params))
    /\ IF positions = <<>>
           THEN /\ pc' = "raised"
                /\ error' = "IndexError"
                /\ UNCHANGED drop_inches
           ELSE /\ pc' = "done"
                /\ drop_inches' = positions[Len(positions)][2]
                /\ UNCHANGED error
    /\ UNCHANGED <<params, iter, calls, angle_low, angle_high, angle_mid,
                   x, y, vx, vy, height, initial_angle, positions, DragVars,
                   GuiVars>>

Next ==
    \/ Iterate
    \/ ReturnMidpoint
    \/ SimStep
    \/ SimFallThrough
    \/ Judge
    \/ Resimulate
    \/ TrajBegin
    \/ TrajStep
    \/ TrajReturn

Spec == Init /\ [][Next]_vars

-----------------------------------------------------------------------------
(* The drag model on its own: a sweep of the speed, 0.1 fps at a time,     *)
(* across both segment boundaries (Mach 0.7 = 781.48 fps, Mach 1.2 =       *)
(* 1339.68 fps), for each family.                                          *)

DragVMin == 7000

DragVMax == 14000

DragInit ==
    /\ params = Args(0, 0, 0, 0, "G1")
    /\ pc = "drag"
    /\ iter = 0
    /\ calls = 0
    /\ angle_low = AngleMin
    /\ angle_high = AngleMax
    /\ angle_mid = AngleMin
    /\ x = 0 /\ y = 0 /\ vx = 0 /\ vy = 0
    /\ height = 0
    /\ initial_angle = AngleMin
    /\ positions = <<>>
    /\ drop_inches = 0
    /\ error = "none"
    /\ drag_v = DragVMin
    /\ drag_model \in {"G1", "G7"}
    /\ cd_prev = calculate_drag_coefficient(DragVMin, drag_model)
    /\ cd_now = calculate_drag_coefficient(DragVMin, drag_model)
    /\ GuiConstructed

DragSweep ==
    /\ pc = "drag"
    /\ drag_v < DragVMax
    /\ drag_v' = drag_v + 1
    /\ cd_prev' = cd_now
    /\ cd_now' = calculate_drag_coefficient(drag_v + 1, drag_model)
    /\ UNCHANGED <<params, pc, iter, calls, angle_low, angle_high, angle_mid,
                   x, y, vx, vy, height, initial_angle, positions, drop_inches,
                   error, drag_model, GuiVars>>

DragSpec == DragInit /\ [][DragSweep]_vars

-----------------------------------------------------------------------------
(* ScopeAdjustmentApp (src/ScopeAdjustment.py): shot marking, the          *)
(* adjustment and the calibration_history table.                           *)

\* Most shots marked, and most rows the table is let grow to.
MaxShots == 2

MaxRecords == 2

\* LIMIT 50 of load_history's query
HistoryLimit == 50

\* Image center used in "default" mode: center_x, center_y = 250, 250
ImageCenter == <<250, 250>>

\* Canvas width and height in pixels: `diff_x / 500`
CanvasSize == 500

DigitValue ==
    ("0" :> 0) @@ ("1" :> 1) @@ ("2" :> 2) @@ ("3" :> 3) @@ ("4" :> 4) @@
    ("5" :> 5) @@ ("6" :> 6) @@ ("7" :> 7) @@ ("8" :> 8) @@ ("9" :> 9)

IsDigits(t) == \A i \in 1 .. Len(t) : t[i] \in DOMAIN DigitValue

RECURSIVE DigitsValue(_)
DigitsValue(t) ==
    IF t = <<>> THEN 0
    ELSE DigitsValue(SubSeq(t, 1, Len(t) - 1)) * 10 + DigitValue[t[Len(t)]]

\* float(text) on unsigned decimal literals ("12", "12.5", ".5", "12."):
\* the value in thousandths, or ok = FALSE where float raises ValueError.
\* Signs, exponents, blanks, "inf" and "nan" are not among the texts typed.
ParseFloat(t) ==
    LET dots == {i \in 1 .. Len(t) : t[i] = "."}
        p    == IF dots = {} THEN Len(t) + 1 ELSE CHOOSE i \in dots : TRUE
        ip   == SubSeq(t, 1, p - 1)
        fp   == SubSeq(t, p + 1, Len(t))
        ok   == /\ Cardinality(dots) <= 1
                /\ IsDigits(ip) /\ IsDigits(fp)
                /\ Len(ip) + Len(fp) > 0
    IN  [ok    |-> ok,
         value |-> IF ok
                      THEN DigitsValue(ip) * 1000
                             + DigitsValue(SubSeq(fp \o <<"0", "0", "0">>, 1, 3))
                      ELSE 0]

\* int(text) on unsigned literals: digits only, "15.5" raises ValueError.
ParseInt(t) ==
    [ok    |-> t # <<>> /\ IsDigits(t),
     value |-> IF t # <<>> /\ IsDigits(t) THEN DigitsValue(t) ELSE 0]

\* What the user can have typed into the four entries used by
\* calculate_adjustment: <<width, height, distance, bullet weight>>.
Forms ==
    { << <<"1", "2">>, <<"1", "2", ".", "5">>, <<"1", "0", "0">>,
         <<"1", "5", "0">> >>,
      << <<"a", "b", "c">>, <<"1", "2", ".", "5">>, <<"1", "0", "0">>, <<>> >>,
      << <<"1", "2">>, <<>>, <<"1", "0", "0">>, <<>> >>,
      << <<"1", "2">>, <<"1", "2", ".", "5">>, <<"1", "o", "0">>, <<>> >>,
      << <<"1", "2">>, <<"1", "2", ".", "5">>, <<"0">>, <<>> >>,
      << <<"1", "2">>, <<"1", "2", ".", "5">>, <<"1", "0", "0">>,
         <<"1", "5", ".", "5">> >> }

\* Pixels the user clicks on.
ShotPoints == {<<300, 200>>}

CenterPoints == {<<100, 100>>}

\* update_center_display: in "default" mode with an image loaded the image
\* center becomes the target center; everything else it does is drawing.
update_center_display(mode) ==
    IF image /\ mode = "default" THEN ImageCenter ELSE target_center

RECURSIVE Reverse(_)
Reverse(s) ==
    IF s = <<>> THEN <<>> ELSE <<s[Len(s)]>> \o Reverse(SubSeq(s, 1, Len(s) - 1))

\* f"{value:.2f}": thousandths rounded to hundredths
Hundredths(v) == Sgn(v) * RoundDiv(Abs(v), 10)

\* load_history's query and formatting: the latest HistoryLimit rows, newest
\* first (dates grow with insertion order).
Rows(h) ==
    LET newest == Reverse(h)
        shown  == SubSeq(newest, 1,
                         IF Len(newest) < HistoryLimit THEN Len(newest)
                                                       ELSE HistoryLimit)
    IN  [i \in 1 .. Len(shown) |->
            [target_distance       |-> shown[i].target_distance,
             horizontal_adjustment |-> Hundredths(shown[i].horizontal_adjustment),
             vertical_adjustment   |-> Hundredths(shown[i].vertical_adjustment),
             adjustment_type       |-> shown[i].adjustment_type,
             bullet_weight         |-> shown[i].bullet_weight]]

RECURSIVE SumOf(_, _)
SumOf(s, k) == IF s = <<>> THEN 0 ELSE s[1][k] + SumOf(Tail(s), k)

\* Lines 374-392: the angular adjustment along axis k (1 = x, 2 = y) in
\* thousandths of the unit, for a distance other than 0.
Adjustment(k, center, size, distance, unit) ==
    LET avg   == (SumOf(shot_coordinates, k) * 1000) \div Len(shot_coordinates)
        diff  == center[k] * 1000 - avg
        inch  == MulDivS(IF k = 1 THEN diff ELSE -diff, size, CanvasSize * 1000)
        per   == MulDivS(inch, 100000, distance)
    IN  MulDivS(per, 1000, IF unit = "MOA" THEN 1047 ELSE 3600)

\* The row that save_calibration inserts.  INTEGER PRIMARY KEY gives the
\* largest id in the table plus one.
Record(center) ==
    [id                    |-> Len(history) + 1,
     target_distance       |-> ParseFloat(target_distance).value,
     horizontal_adjustment |-> Adjustment(1, center, ParseFloat(target_width).value,
                                          ParseFloat(target_distance).value,
                                          adjustment_type),
     vertical_adjustment   |-> Adjustment(2, center, ParseFloat(target_height).value,
                                          ParseFloat(target_distance).value,
                                          adjustment_type),
     adjustment_type       |-> adjustment_type,
     bullet_weight         |-> IF bullet_weight = <<>> THEN 0
                               ELSE ParseInt(bullet_weight).value]

BallisticsVars == <<params, pc, iter, calls, angle_low, angle_high, angle_mid,
                    x, y, vx, vy, height, initial_angle, positions,
                    drop_inches, error, DragVars>>

\* The application after __init__, on its first run: setup_database has
\* just created the table.
GuiInit ==
    /\ params = Args(0, 0, 0, 0, "G1")
    /\ pc = "gui"
    /\ iter = 0
    /\ calls = 0
    /\ angle_low = AngleMin
    /\ angle_high = AngleMax
    /\ angle_mid = AngleMin
    /\ x = 0 /\ y = 0 /\ vx = 0 /\ vy = 0
    /\ height = 0
    /\ initial_angle = AngleMin
    /\ positions = <<>>
    /\ drop_inches = 0
    /\ error = "none"
    /\ drag_v = 0 /\ drag_model = "G1" /\ cd_prev = 0 /\ cd_now = 0
    /\ image = FALSE
    /\ shot_coordinates = <<>>
    /\ target_center = <<>>
    /\ marking_mode = "shots"
    /\ canvas_binding = "none"
    /\ target_width = <<>>
    /\ target_height = <<>>
    /\ target_distance = <<>>
    /\ bullet_weight = <<>>
    /\ adjustment_type = "MOA"
    /\ history = <<>>
    /\ history_tree = <<>>
    /\ reported = <<"none", "">>

\* The user edits the entries (Tk writes the StringVars).
Type(form) ==
    /\ pc = "gui"
    /\ target_width' = form[1]
    /\ target_height' = form[2]
    /\ target_distance' = form[3]
    /\ bullet_weight' = form[4]
    /\ UNCHANGED <<image, shot_coordinates, target_center, marking_mode,
                   canvas_binding, adjustment_type, history, history_tree,
                   reported, BallisticsVars>>

\* The MOA / MIL radio buttons.
SelectAdjustmentType(unit) ==
    /\ pc = "gui"
    /\ adjustment_type' = unit
    /\ UNCHANGED <<image, shot_coordinates, target_center, marking_mode,
                   canvas_binding, target_width, target_height,
                   target_distance, bullet_weight, history, history_tree,
                   reported, BallisticsVars>>

\* upload_image with a file chosen (a cancelled dialog changes nothing).
upload_image ==
    /\ pc = "gui"
    /\ image' = TRUE
    /\ UNCHANGED <<shot_coordinates, target_center, marking_mode,
                   canvas_binding, target_width, target_height,
                   target_distance, bullet_weight, adjustment_type, history,
                   history_tree, reported, BallisticsVars>>

\* The "Use Image Center" / "Mark Center" radio buttons: the variable is
\* set, then command=self.update_center_display runs.
SelectMarkingMode(mode) ==
    /\ pc = "gui"
    /\ marking_mode' = mode
    /\ target_center' = update_center_display(mode)
    /\ UNCHANGED <<image, shot_coordinates, canvas_binding, target_width,
                   target_height, target_distance, bullet_weight,
                   adjustment_type, history, history_tree, reported,
                   BallisticsVars>>

start_marking_center ==
    /\ pc = "gui"
    /\ IF ~image
          THEN /\ reported' = <<"showerror", "Please upload an image first">>
               /\ UNCHANGED <<marking_mode, canvas_binding>>
          ELSE /\ marking_mode' = "center"
               /\ canvas_binding' = "mark_center"
               /\ reported' = <<"showinfo", "Mark Center">>
    /\ UNCHANGED <<image, shot_coordinates, target_center, target_width,
                   target_height, target_distance, bullet_weight,
                   adjustment_type, history, history_tree, BallisticsVars>>

\* A click on the canvas while mark_center is bound.
mark_center(event) ==
    /\ pc = "gui"
    /\ canvas_binding = "mark_center"
    /\ target_center' = event
    /\ canvas_binding' = "none"
    /\ reported' = <<"showinfo", "Center Marked">>
    /\ UNCHANGED <<image, shot_coordinates, marking_mode, target_width,
                   target_height, target_distance, bullet_weight,
                   adjustment_type, history, history_tree, BallisticsVars>>

clear_all ==
    /\ pc = "gui"
    /\ shot_coordinates' = <<>>
    /\ target_center' = IF marking_mode = "default" THEN ImageCenter ELSE <<>>
    /\ UNCHANGED <<image, marking_mode, canvas_binding, target_width,
                   target_height, target_distance, bullet_weight,
                   adjustment_type, history, history_tree, reported,
                   BallisticsVars>>

start_marking_shots ==
    /\ pc = "gui"
    /\ canvas_binding' = "mark_shot"
    /\ reported' = <<"showinfo", "Mark Shots">>
    /\ UNCHANGED <<image, shot_coordinates, target_center, marking_mode,
                   target_width, target_height, target_distance,
                   bullet_weight, adjustment_type, history, history_tree,
                   BallisticsVars>>

\* A click on the canvas while mark_shot is bound.
mark_shot(event) ==
    /\ pc = "gui"
    /\ canvas_binding = "mark_shot"
    /\ Len(shot_coordinates) < MaxShots
    /\ shot_coordinates' = Append(shot_coordinates, event)
    /\ UNCHANGED <<image, target_center, marking_mode, canvas_binding,
                   target_width, target_height, target_distance,
                   bullet_weight, adjustment_type, history, history_tree,
                   reported, BallisticsVars>>

\* calculate_adjustment, but without the check that a target center is
\* stored: the image center stands in for a missing one.
calculate_adjustment_NoCenterCheck ==
    /\ pc = "gui"
    /\ UNCHANGED <<image, shot_coordinates, target_center, marking_mode,
                   canvas_binding, target_width, target_height,
                   target_distance, bullet_weight, adjustment_type,
                   BallisticsVars>>
    /\ IF shot_coordinates = <<>>
          THEN /\ reported' = <<"showerror", "No shots marked!">>
               /\ UNCHANGED <<history, history_tree>>
       ELSE IF ~(/\ ParseFloat(target_width).ok
                 /\ ParseFloat(target_height).ok
                 /\ ParseFloat(target_distance).ok)
          THEN /\ reported' = <<"showerror",
                     "Please enter valid numeric values for all fields">>
               /\ UNCHANGED <<history, history_tree>>
       ELSE IF ParseFloat(target_distance).value = 0
          THEN /\ reported' = <<"traceback", "ZeroDivisionError">>
               /\ UNCHANGED <<history, history_tree>>
       ELSE IF bullet_weight # <<>> /\ ~ParseInt(bullet_weight).ok
          THEN /\ reported' = <<"traceback", "ValueError">>
               /\ UNCHANGED <<history, history_tree>>
       ELSE /\ Len(history) < MaxRecords
            /\ history' = Append(history,
                    Record(IF marking_mode = "default" \/ target_center = <<>>
                              THEN ImageCenter ELSE target_center))
            /\ history_tree' = Rows(history')
            /\ reported' = <<"showinfo", "Adjustment Needed">>

\* calculate_adjustment, with save_calibration and its load_history.  The
\* division by target_distance / 100 raises ZeroDivisionError at line 386,
\* int(bullet_weight) raises ValueError at line 397; Tk prints the traceback
\* and the handler ends there.
calculate_adjustment ==
    /\ pc = "gui"
    /\ UNCHANGED <<image, shot_coordinates, target_center, marking_mode,
                   canvas_binding, target_width, target_height,
                   target_distance, bullet_weight, adjustment_type,
                   BallisticsVars>>
    /\ IF shot_coordinates = <<>>
          THEN /\ reported' = <<"showerror", "No shots marked!">>
               /\ UNCHANGED <<history, history_tree>>
       ELSE IF ~(/\ ParseFloat(target_width).ok
                 /\ ParseFloat(target_height).ok
                 /\ ParseFloat(target_distance).ok)
          THEN /\ reported' = <<"showerror",
                     "Please enter valid numeric values for all fields">>
               /\ UNCHANGED <<history, history_tree>>
       ELSE IF marking_mode # "default" /\ target_center = <<>>
          THEN /\ reported' = <<"showerror",
                                "Please mark the target center first">>
               /\ UNCHANGED <<history, history_tree>>
       ELSE IF ParseFloat(target_distance).value = 0
          THEN /\ reported' = <<"traceback", "ZeroDivisionError">>
               /\ UNCHANGED <<history, history_tree>>
       ELSE IF bullet_weight # <<>> /\ ~ParseInt(bullet_weight).ok
          THEN /\ reported' = <<"traceback", "ValueError">>
               /\ UNCHANGED <<history, history_tree>>
       ELSE /\ Len(history) < MaxRecords
            /\ history' = Append(history,
                    Record(IF marking_mode = "default" THEN ImageCenter
                                                       ELSE target_center))
            /\ history_tree' = Rows(history')
            /\ reported' = <<"showinfo", "Adjustment Needed">>

\* clear_history; answer is what askyesno returns.
clear_history(answer) ==
    /\ pc = "gui"
    /\ IF answer
          THEN /\ history' = <<>>
               /\ history_tree' = Rows(history')
               /\ reported' = <<"showinfo", "Clear History">>
          ELSE UNCHANGED <<history, history_tree, reported>>
    /\ UNCHANGED <<image, shot_coordinates, target_center, marking_mode,
                   canvas_binding, target_width, target_height,
                   target_distance, bullet_weight, adjustment_type,
                   BallisticsVars>>

\* The "Refresh History" button.
load_history ==
    /\ pc = "gui"
    /\ history_tree' = Rows(history)
    /\ UNCHANGED <<image, shot_coordinates, target_center, marking_mode,
                   canvas_binding, target_width, target_height,
                   target_distance, bullet_weight, adjustment_type, history,
                   reported, BallisticsVars>>

GuiNext ==
    \/ \E form \in Forms : Type(form)
    \/ \E unit \in {"MOA", "MIL"} : SelectAdjustmentType(unit)
    \/ upload_image
    \/ \E mode \in {"default", "center"} : SelectMarkingMode(mode)
    \/ start_marking_center
    \/ \E event \in CenterPoints : mark_center(event)
    \/ clear_all
    \/ start_marking_shots
    \/ \E event \in ShotPoints : mark_shot(event)
    \/ calculate_adjustment
    \/ \E answer \in BOOLEAN : clear_history(answer)
    \/ load_history

GuiSpec == GuiInit /\ [][GuiNext]_vars

-----------------------------------------------------------------------------
(* Properties.                                                             *)

\* find_zero_angle returns a bare float at lines 76 and 82: the two limbs
\* of the angle and nothing that marks the search as not converged.
ResultFlagsNonConvergence == Len(initial_angle) > 2

ReturnsAsSpecified ==
    /\ calls <= 50
    /\ pc = "zeroed" =>
          \/ /\ iter < 50
             /\ calls = iter + 1
             /\ initial_angle = angle_mid
             /\ Abs(height - SightHeightFt(params)) < 100
          \/ /\ iter = 50
             /\ calls = 50
             /\ Abs(height - SightHeightFt(params)) >= 100
             /\ initial_angle = Midpoint(angle_low, angle_high)

\* The only error raised inside find_zero_angle is the division's.
FindZeroAngleRaised == pc = "raised" /\ error = "ZeroDivisionError"

C3_NoStepAtOrBeyondRange ==
    [][ValidArgs(params) =>
          /\ (pc \in {"sim", "resim"} /\ x >= ZeroRangeFt(params))
                => UNCHANGED <<x, y, vx, vy>>
          /\ (pc = "traj" /\ x >= TargetRangeFt(params))
                => UNCHANGED <<x, y, vx, vy, positions>>]_vars

\* C4: with a stopping range of 0 or less the loop body never runs and the
\* integrator returns the initial state: x = 0 and the sight height from
\* simulate_to_zero, no sample and a drop of 0 from calculate_trajectory.
C4_NonPositiveRangeReturnsInitialState ==
    /\ (params.zero_range <= 0 /\ pc \in {"judge", "rechecked"})
          => (x = 0 /\ height = SightHeightFt(params))
    /\ (params.target_range <= 0 /\ pc = "traj") => positions = <<>>
    /\ (params.target_range <= 0 /\ pc = "done") => drop_inches = 0
    /\ params.target_range <= 0 => error # "IndexError"

\* C5: arguments outside the domain are rejected before any simulation:
\* the integrator is never called and nothing is returned for them.
C5_InvalidArgsRejected ==
    ~ValidArgs(params) =>
        /\ calls = 0
        /\ pc \notin {"sim", "judge", "zeroed", "resim", "rechecked", "traj", "done"}

\* The loop body leaves x, vx and vy as they were.  The loops read nothing
\* else (y feeds neither the loop condition nor the velocities), so from
\* such a state every later pass is the same pass and x never moves again.
LoopStalled ==
    LET s == IntegrationStep(params, State)
    IN  s.x = x /\ s.vx = vx /\ s.vy = vy

\* C6: for valid arguments every integrator run ends, x coming to the
\* stopping range: no run of either loop is ever caught short of its
\* stopping range in a state that the loop body can only repeat.
C6_IntegratorTerminates ==
    ValidArgs(params) =>
        /\ (pc \in {"sim", "resim"} /\ x <= ZeroRangeFt(params)) => ~LoopStalled
        /\ (pc = "traj" /\ x <= TargetRangeFt(params)) => ~LoopStalled

\* C7: with target_range = zero_range and a search that met its tolerance,
\* the trajectory loop ends in the state the solver's last run ended in, so
\* the reported drop is within 0.0001 ft * 12 = 0.0012 in of zero.
C7_DropAtZeroRange ==
    (/\ pc = "done"
     /\ ValidArgs(params)
     /\ params.target_range = params.zero_range
     /\ iter < 50)
        => /\ drop_inches = (height - SightHeightFt(params)) * 12
           /\ Abs(drop_inches) < 1200

\* C8: across the recorded samples whose range is beyond the zero range the
\* magnitude of the drop strictly increases.
C8_DropGrowsBeyondZero ==
    ValidArgs(params) =>
        \A i \in 1 .. Len(positions) - 1 :
            positions[i][1] > params.zero_range
                => Abs(positions[i + 1][2]) > Abs(positions[i][2])

\* C9: along the sweep (0.1 fps, less than 0.0001 Mach, at a time) the
\* coefficient never decreases and never jumps: a step within a segment
\* changes it by less than 0.00005, a step across a boundary by no more.
C9_ContinuousNonDecreasing ==
    pc = "drag" => (cd_now >= cd_prev /\ cd_now - cd_prev <= 50)

\* angle_high - angle_low = 0.2 / 2^n, in units of 0.1/2^50 rad.
WidthIsHalved(n) ==
    IF n <= 25
        THEN /\ angle_high[1] - angle_low[1] = 2 ^ (25 - n)
             /\ angle_high[2] = angle_low[2]
        ELSE /\ angle_high[1] - angle_low[1] \in {0, 1}
             /\ (angle_high[1] - angle_low[1]) * 67108864
                    + angle_high[2] - angle_low[2] = 2 ^ (51 - n)

\* C10: at the start of every iteration -0.1 <= angle_low < angle_high <= 0.1
\* and the bracket is [-0.1, 0.1] halved once per completed iteration; and
\* every narrowing keeps the sign change: angle_high only moves (to the
\* midpoint) when the height there is above the sight height, angle_low only
\* when it is below.
C10_BisectionInvariant ==
    /\ [](pc = "bisect" =>
            /\ ~AngleLess(angle_low, AngleMin)
            /\ AngleLess(angle_low, angle_high)
            /\ ~AngleLess(AngleMax, angle_high)
            /\ WidthIsHalved(iter))
    /\ [][/\ angle_high' # angle_high =>
                (angle_high' = angle_mid /\ height > SightHeightFt(params))
          /\ angle_low' # angle_low =>
                (angle_low' = angle_mid /\ height < SightHeightFt(params))]_vars

\* An iteration starts with both ends of the bracket already moved.
C10_Witness ==
    /\ pc = "bisect"
    /\ iter >= 10
    /\ angle_low # AngleMin
    /\ angle_high # AngleMax

\* C11: for a launch with positive muzzle velocity (every launch angle of
\* the model lies in [-0.1, 0.1]) no pass of either integrator loop moves x
\* back or leaves velocity_x negative, and the samples collected by
\* calculate_trajectory are ordered by non-decreasing range.
C11_DownrangeNonDecreasing ==
    /\ [](ValidArgs(params) =>
            \A i \in 1 .. Len(positions) - 1 :
                positions[i][1] <= positions[i + 1][1])
    /\ [][(ValidArgs(params) /\ pc \in {"sim", "resim", "traj"})
            => (x' >= x /\ vx' >= 0)]_vars

\* The three checks of calculate_adjustment (lines 352, 356-362, 365-370):
\* a shot is marked, width, height and distance are numbers, and a target
\* center is at hand: the mode is "default" or self.target_center is set.
PassesInputChecks ==
    /\ shot_coordinates # <<>>
    /\ ParseFloat(target_width).ok
    /\ ParseFloat(target_height).ok
    /\ ParseFloat(target_distance).ok
    /\ (marking_mode = "default" \/ target_center # <<>>)

\* history' is history with one row added at the end.
OneRowAppended ==
    /\ Len(history') = Len(history) + 1
    /\ SubSeq(history', 1, Len(history)) = history

\* C12: the calibration history is an append-only log: every
\* calculate_adjustment that passes its input checks appends exactly one
\* row and alters none; the table changes in no other way than by such an
\* append or by a confirmed clear_history, which empties it; a declined
\* clear_history leaves it as it was.
C12_AppendOnlyLog ==
    [][/\ (calculate_adjustment /\ PassesInputChecks) => OneRowAppended
       /\ history' # history =>
              \/ calculate_adjustment /\ OneRowAppended
              \/ clear_history(TRUE) /\ history' = <<>>
       /\ clear_history(TRUE) => history' = <<>>
       /\ clear_history(FALSE) => history' = history]_vars

=============================================================================
